---- MODULE Spec2Model ----
(***************************************************************************)
(* A model of cupyx.distributed._comm.NCCLBackend: the bootstrap of the    *)
(* NCCL session through the rendezvous store, the validation of buffers,   *)
(* and the transport calls every public operation issues.                  *)
(***************************************************************************)
EXTENDS Integers, Sequences, FiniteSets, TLC

(* ------------------------------------------------------------------ *)
(* Bounds                                                             *)
(* ------------------------------------------------------------------ *)

\* largest group size (n_devices) explored
MaxN == 3
\* number of distinct values nccl.get_unique_id() may return
MaxIds == 2

Ranks == 0 .. (MaxN - 1)
Ids == 1 .. MaxIds
\* the value of a name that is not bound yet / a key that is absent
NoId == 0
\* self._comm before line 48 has run
NoComm == [built |-> FALSE, ndev |-> 0, id |-> NoId, rank |-> 0]

VARIABLES
    n_devices,   \* NCCLBackend._n_devices, the same on every rank
    pc,          \* per rank: the line of __init__ the process is at
    store_run,   \* TCPStore.run() has been called: the listener serves
    storage,     \* the store's value under 'nccl_id' (NoId when absent)
    arrived,     \* ranks the store has registered in the barrier
    early,       \* ranks whose barrier call left before the listener ran
    nccl_id,     \* per rank: the local variable nccl_id of __init__
    comm,        \* per rank: the arguments NcclCommunicator was built with
    self_rank,   \* the rank of the backend whose methods are called
    phase,       \* "idle", or "returned" right after a method call
    last,        \* the method called last and its arguments
    result,      \* what that call raised and the transport calls it issued
    scenario,    \* the collective the group runs and the buffers it passes
    ncalls,      \* per rank: how many calls of the scenario it has made
    xerr,        \* per rank: the exception or transport failure it met
    xlog,        \* per rank: the transport calls of each call it made
    queue,       \* per rank: the groups on its stream, oldest first
    mem,         \* per rank: the contents of its buffers in, out and res
    hmethod,     \* the host-side method the ranks call
    hroot,       \* the root argument of cpu_broadcast
    host,        \* per rank: where it is in the host-side method, how
                 \* often it entered and left it, what the call returned
    barrier_gen, \* the store's value under 'barrier'
    checked,     \* ranks the store has seen check in since it last advanced
    published    \* the values set in the store by cpu_broadcast

bootVars == <<n_devices, pc, store_run, storage, arrived, early, nccl_id, comm>>
opsVars == <<self_rank, phase, last, result>>
xVars == <<scenario, ncalls, xerr, xlog, queue, mem>>
hostVars == <<hmethod, hroot, host, barrier_gen, checked, published>>

vars == <<n_devices, pc, store_run, storage, arrived, early, nccl_id, comm,
          self_rank, phase, last, result,
          scenario, ncalls, xerr, xlog, queue, mem,
          hmethod, hroot, host, barrier_gen, checked, published>>

Procs == 0 .. (n_devices - 1)

(* ------------------------------------------------------------------ *)
(* Arrays, as the backend sees them                                   *)
(* ------------------------------------------------------------------ *)

\* An array is [shape, layout, dtype, ptr]: shape is a non-empty tuple of
\* positive dimensions, layout is "C" (row-major), "F" (column-major) or
\* "N" (a strided view, contiguous in neither order), dtype is
\* array.dtype.char and ptr is array.data.ptr, counted in elements.

RECURSIVE Prod(_)
Prod(sh) == IF sh = <<>> THEN 1 ELSE Head(sh) * Prod(Tail(sh))

\* array.size
Size(a) == Prod(a.shape)

\* the number of dimensions longer than one
RECURSIVE LongDims(_)
LongDims(sh) ==
    IF sh = <<>> THEN 0
    ELSE (IF Head(sh) > 1 THEN 1 ELSE 0) + LongDims(Tail(sh))

\* array.flags.c_contiguous / array.flags.f_contiguous: an array with at
\* most one dimension longer than one that is contiguous in one order is
\* contiguous in the other too.
CContiguous(a) ==
    a.layout = "C" \/ (a.layout = "F" /\ LongDims(a.shape) <= 1)
FContiguous(a) ==
    a.layout = "F" \/ (a.layout = "C" /\ LongDims(a.shape) <= 1)

\* array[i]: the i-th slice along the leading dimension
Index(a, i) ==
    [shape  |-> Tail(a.shape),
     layout |-> IF CContiguous(a) THEN "C" ELSE "N",
     dtype  |-> a.dtype,
     ptr    |-> a.ptr + i * (Size(a) \div a.shape[1])]

\* ints of the transport interface that stand for "no such argument"
NoArg == 0 - 1

(* ------------------------------------------------------------------ *)
(* Tables                                                             *)
(* ------------------------------------------------------------------ *)

\* _nccl_dtypes: dtype char -> ncclDataType_t
NcclDtypes ==
    [c \in {"b", "B", "i", "I", "l", "L", "q", "Q", "e", "f", "d", "F", "D"} |->
        CASE c = "b" -> 0
          [] c = "B" -> 1
          [] c = "i" -> 2
          [] c = "I" -> 3
          [] c = "l" -> 4
          [] c = "L" -> 5
          [] c = "q" -> 4
          [] c = "Q" -> 5
          [] c = "e" -> 6
          [] c = "f" -> 7
          [] c = "d" -> 8
          [] c = "F" -> 7
          [] c = "D" -> 8]

\* _nccl_ops: op name -> ncclRedOp_t
NcclOps ==
    [o \in {"sum", "prod", "max", "min"} |->
        CASE o = "sum" -> 0
          [] o = "prod" -> 1
          [] o = "max" -> 2
          [] o = "min" -> 3]

(* ------------------------------------------------------------------ *)
(* The outcome of a method: the transport calls it issued, in order,  *)
(* and the exception it raised ("None" when it returned).             *)
(* ------------------------------------------------------------------ *)

Returns(calls) == [err |-> "None", calls |-> calls]
Raises(e, calls) == [err |-> e, calls |-> calls]

\* One call of the transport, by position: (sendbuf, recvbuf, count,
\* datatype, op, root or peer).
TCall(fn, sendbuf, recvbuf, count, datatype, op, peer) ==
    [fn |-> fn, sendbuf |-> sendbuf, recvbuf |-> recvbuf, count |-> count,
     dtype |-> datatype, op |-> op, peer |-> peer]

GroupStart == TCall("groupStart", NoArg, NoArg, NoArg, NoArg, NoArg, NoArg)
GroupEnd == TCall("groupEnd", NoArg, NoArg, NoArg, NoArg, NoArg, NoArg)

\* the arguments a method does not take
NoArray == [shape |-> <<1>>, layout |-> "C", dtype |-> "f", ptr |-> NoArg]
NoCall == [method |-> "none", in_array |-> NoArray, out_array |-> NoArray,
           root |-> NoArg, op |-> "none", peer |-> NoArg]

\* no collective scenario is running
NoScenario == [kind |-> "none", root |-> NoArg, p |-> NoArg, q |-> NoArg,
               dtype |-> "f", item |-> <<1>>]
NoMem == [in |-> <<>>, out |-> <<>>, res |-> <<>>]

(* ------------------------------------------------------------------ *)
(* Helpers of NCCLBackend                                             *)
(* ------------------------------------------------------------------ *)

\* _check_contiguous: TRUE when it raises RuntimeError('NCCL requires
\* arrays to be contiguous'). Python reads the condition as
\* (not c_contiguous) or f_contiguous.
CheckContiguousRaises(array) ==
    (~CContiguous(array)) \/ FContiguous(array)

\* _get_nccl_dtype_and_count without the doubling of line 60
GetNcclDtypeAndCountNoDoubling(array) ==
    IF array.dtype \notin DOMAIN NcclDtypes
    THEN [ok |-> FALSE, dtype |-> NoArg, count |-> NoArg]
    ELSE [ok |-> TRUE, dtype |-> NcclDtypes[array.dtype],
          count |-> Size(array)]

\* _get_nccl_dtype_and_count: raises TypeError for an unknown dtype,
\* doubles the count of the complex dtypes
GetNcclDtypeAndCount(array) ==
    IF array.dtype \notin DOMAIN NcclDtypes
    THEN [ok |-> FALSE, dtype |-> NoArg, count |-> NoArg]
    ELSE IF array.dtype \in {"F", "D"}
         THEN [ok |-> TRUE, dtype |-> NcclDtypes[array.dtype],
               count |-> 2 * Size(array)]
         ELSE [ok |-> TRUE, dtype |-> NcclDtypes[array.dtype],
               count |-> Size(array)]

\* _get_op: raises RuntimeError for an unknown op
GetOpRaises(op) == op \notin DOMAIN NcclOps

\* array.data_ptr: the arrays have the attribute data (with data.ptr) and
\* no attribute data_ptr, so reading it raises AttributeError.
HasDataPtrAttr == FALSE

\* _send: self._comm.send(array.data.ptr, dtype, count, peer, stream)
\* hands dtype in the transport's count position and count in its
\* datatype position.
SendCall(array, peer, dtype, count) ==
    TCall("send", array.ptr, NoArg, dtype, count, NoArg, peer)

\* _recv: self._comm.recv(out_array.data.ptr, count, dtype, peer, stream)
RecvCall(out_array, peer, dtype, count) ==
    TCall("recv", NoArg, out_array.ptr, count, dtype, NoArg, peer)


(* ------------------------------------------------------------------ *)
(* The public operations: each is the whole method, from its first    *)
(* check to its last transport call. self is [n, rank].               *)
(* ------------------------------------------------------------------ *)

all_reduce(self, in_array, out_array, op) ==
    IF CheckContiguousRaises(in_array) THEN Raises("LayoutError", <<>>)
    ELSE IF CheckContiguousRaises(out_array) THEN Raises("LayoutError", <<>>)
    ELSE IF ~GetNcclDtypeAndCount(in_array).ok
         THEN Raises("UnsupportedType", <<>>)
    ELSE IF GetOpRaises(op) THEN Raises("UnsupportedOp", <<>>)
    ELSE IF ~HasDataPtrAttr THEN Raises("AttributeError", <<>>)
    ELSE Returns(<<TCall("allReduce", in_array.ptr, out_array.ptr,
                         GetNcclDtypeAndCount(in_array).count,
                         GetNcclDtypeAndCount(in_array).dtype,
                         NcclOps[op], NoArg)>>)

reduce(self, in_array, out_array, root, op) ==
    IF CheckContiguousRaises(in_array) THEN Raises("LayoutError", <<>>)
    ELSE IF self.rank = root /\ CheckContiguousRaises(out_array)
         THEN Raises("LayoutError", <<>>)
    ELSE IF ~GetNcclDtypeAndCount(in_array).ok
         THEN Raises("UnsupportedType", <<>>)
    ELSE IF GetOpRaises(op) THEN Raises("UnsupportedOp", <<>>)
    ELSE Returns(<<TCall("reduce", in_array.ptr, out_array.ptr,
                         GetNcclDtypeAndCount(in_array).count,
                         GetNcclDtypeAndCount(in_array).dtype,
                         NcclOps[op], root)>>)

broadcast(self, in_array, root) ==
    IF CheckContiguousRaises(in_array) THEN Raises("LayoutError", <<>>)
    ELSE IF ~GetNcclDtypeAndCount(in_array).ok
         THEN Raises("UnsupportedType", <<>>)
    ELSE Returns(<<TCall("broadcast", in_array.ptr, in_array.ptr,
                         GetNcclDtypeAndCount(in_array).count,
                         GetNcclDtypeAndCount(in_array).dtype,
                         NoArg, root)>>)

reduce_scatter(self, in_array, out_array, op) ==
    IF CheckContiguousRaises(in_array) THEN Raises("LayoutError", <<>>)
    ELSE IF CheckContiguousRaises(out_array) THEN Raises("LayoutError", <<>>)
    ELSE IF ~GetNcclDtypeAndCount(in_array).ok
         THEN Raises("UnsupportedType", <<>>)
    ELSE IF GetOpRaises(op) THEN Raises("UnsupportedOp", <<>>)
    ELSE IF ~HasDataPtrAttr THEN Raises("AttributeError", <<>>)
    ELSE Returns(<<TCall("reduceScatter", in_array.ptr, out_array.ptr,
                         GetNcclDtypeAndCount(in_array).count,
                         GetNcclDtypeAndCount(in_array).dtype,
                         NcclOps[op], NoArg)>>)

all_gather(self, in_array, out_array) ==
    IF CheckContiguousRaises(in_array) THEN Raises("LayoutError", <<>>)
    ELSE IF CheckContiguousRaises(out_array) THEN Raises("LayoutError", <<>>)
    ELSE IF ~GetNcclDtypeAndCount(in_array).ok
         THEN Raises("UnsupportedType", <<>>)
    ELSE IF ~HasDataPtrAttr THEN Raises("AttributeError", <<>>)
    ELSE Returns(<<TCall("allGather", in_array.ptr, out_array.ptr,
                         GetNcclDtypeAndCount(in_array).count,
                         GetNcclDtypeAndCount(in_array).dtype,
                         NoArg, NoArg)>>)

send(self, array, peer) ==
    IF CheckContiguousRaises(array) THEN Raises("LayoutError", <<>>)
    ELSE IF ~GetNcclDtypeAndCount(array).ok
         THEN Raises("UnsupportedType", <<>>)
    ELSE Returns(<<SendCall(array, peer, GetNcclDtypeAndCount(array).dtype,
                            GetNcclDtypeAndCount(array).count)>>)

recv(self, out_array, peer) ==
    IF CheckContiguousRaises(out_array) THEN Raises("LayoutError", <<>>)
    ELSE IF ~GetNcclDtypeAndCount(out_array).ok
         THEN Raises("UnsupportedType", <<>>)
    ELSE Returns(<<RecvCall(out_array, peer,
                            GetNcclDtypeAndCount(out_array).dtype,
                            GetNcclDtypeAndCount(out_array).count)>>)

\* send_recv without the check of out_array
send_recv_unchecked_out(self, in_array, out_array, peer) ==
    IF CheckContiguousRaises(in_array) THEN Raises("LayoutError", <<>>)
    ELSE IF ~GetNcclDtypeAndCount(in_array).ok
         THEN Raises("UnsupportedType", <<>>)
    ELSE IF ~GetNcclDtypeAndCount(out_array).ok
         THEN Raises("UnsupportedType", <<>>)
    ELSE Returns(<<GroupStart,
                   SendCall(in_array, peer,
                            GetNcclDtypeAndCount(in_array).dtype,
                            GetNcclDtypeAndCount(in_array).count),
                   RecvCall(out_array, peer,
                            GetNcclDtypeAndCount(out_array).dtype,
                            GetNcclDtypeAndCount(out_array).count),
                   GroupEnd>>)

send_recv(self, in_array, out_array, peer) ==
    IF CheckContiguousRaises(in_array) THEN Raises("LayoutError", <<>>)
    ELSE IF CheckContiguousRaises(out_array) THEN Raises("LayoutError", <<>>)
    ELSE IF ~GetNcclDtypeAndCount(in_array).ok
         THEN Raises("UnsupportedType", <<>>)
    ELSE IF ~GetNcclDtypeAndCount(out_array).ok
         THEN Raises("UnsupportedType", <<>>)
    ELSE Returns(<<GroupStart,
                   SendCall(in_array, peer,
                            GetNcclDtypeAndCount(in_array).dtype,
                            GetNcclDtypeAndCount(in_array).count),
                   RecvCall(out_array, peer,
                            GetNcclDtypeAndCount(out_array).dtype,
                            GetNcclDtypeAndCount(out_array).count),
                   GroupEnd>>)

\* the sends of the root in scatter, leaving out the one to itself
ScatterSendsSkipSelf(self, in_array, out_array) ==
    SelectSeq([j \in 1 .. self.n |->
                  SendCall(Index(in_array, j - 1), j - 1,
                           GetNcclDtypeAndCount(out_array).dtype,
                           GetNcclDtypeAndCount(out_array).count)],
              LAMBDA c : c.peer # self.rank)

\* lines 158-162: the sends of the root, one per rank, each with the
\* dtype and count of out_array
ScatterSends(self, in_array, out_array) ==
    [j \in 1 .. self.n |->
        SendCall(Index(in_array, j - 1), j - 1,
                 GetNcclDtypeAndCount(out_array).dtype,
                 GetNcclDtypeAndCount(out_array).count)]

\* scatter with the leading-dimension check made on the root only
scatter_root_side_check(self, in_array, out_array, root) ==
    IF root = self.rank /\ in_array.shape[1] # self.n
    THEN Raises("ShapeError", <<>>)
    ELSE IF CheckContiguousRaises(in_array) THEN Raises("LayoutError", <<>>)
    ELSE IF CheckContiguousRaises(out_array) THEN Raises("LayoutError", <<>>)
    \* ncclGroupStart() has run when the dtype of out_array is looked up
    ELSE IF ~GetNcclDtypeAndCount(out_array).ok
         THEN Raises("UnsupportedType", <<GroupStart>>)
    ELSE Returns(<<GroupStart>>
                 \o (IF root = self.rank
                     THEN ScatterSends(self, in_array, out_array)
                     ELSE <<>>)
                 \o <<RecvCall(out_array, root,
                               GetNcclDtypeAndCount(out_array).dtype,
                               GetNcclDtypeAndCount(out_array).count),
                      GroupEnd>>)

scatter(self, in_array, out_array, root) ==
    IF in_array.shape[1] # self.n THEN Raises("ShapeError", <<>>)
    ELSE IF CheckContiguousRaises(in_array) THEN Raises("LayoutError", <<>>)
    ELSE IF CheckContiguousRaises(out_array) THEN Raises("LayoutError", <<>>)
    \* ncclGroupStart() has run when the dtype of out_array is looked up
    ELSE IF ~GetNcclDtypeAndCount(out_array).ok
         THEN Raises("UnsupportedType", <<GroupStart>>)
    ELSE Returns(<<GroupStart>>
                 \o (IF root = self.rank
                     THEN ScatterSends(self, in_array, out_array)
                     ELSE <<>>)
                 \o <<RecvCall(out_array, root,
                               GetNcclDtypeAndCount(out_array).dtype,
                               GetNcclDtypeAndCount(out_array).count),
                      GroupEnd>>)

\* lines 177-181: the receives of the root, one per rank, into out_array[i],
\* each with the dtype and count of the whole out_array
GatherRecvs(self, out_array) ==
    [j \in 1 .. self.n |->
        RecvCall(Index(out_array, j - 1), j - 1,
                 GetNcclDtypeAndCount(out_array).dtype,
                 GetNcclDtypeAndCount(out_array).count)]

gather(self, in_array, out_array, root) ==
    IF out_array.shape[1] # self.n THEN Raises("ShapeError", <<>>)
    ELSE IF CheckContiguousRaises(in_array) THEN Raises("LayoutError", <<>>)
    ELSE IF CheckContiguousRaises(out_array) THEN Raises("LayoutError", <<>>)
    \* ncclGroupStart() has run from here on
    ELSE IF root = self.rank /\ ~GetNcclDtypeAndCount(out_array).ok
         THEN Raises("UnsupportedType", <<GroupStart>>)
    ELSE IF ~GetNcclDtypeAndCount(in_array).ok
         THEN Raises("UnsupportedType",
                     <<GroupStart>>
                     \o (IF root = self.rank
                         THEN GatherRecvs(self, out_array) ELSE <<>>))
    ELSE Returns(<<GroupStart>>
                 \o (IF root = self.rank
                     THEN GatherRecvs(self, out_array) ELSE <<>>)
                 \o <<SendCall(in_array, root,
                               GetNcclDtypeAndCount(in_array).dtype,
                               GetNcclDtypeAndCount(in_array).count),
                      GroupEnd>>)

\* lines 203-205: send of in_array[i] to rank i, then recv into
\* out_array[i] from rank i, for i = 0 .. n_devices - 1
AllToAllCalls(self, in_array, out_array) ==
    [j \in 1 .. 2 * self.n |->
        IF j % 2 = 1
        THEN SendCall(Index(in_array, (j - 1) \div 2), (j - 1) \div 2,
                      GetNcclDtypeAndCount(Index(in_array, 0)).dtype,
                      GetNcclDtypeAndCount(Index(in_array, 0)).count)
        ELSE RecvCall(Index(out_array, (j - 1) \div 2), (j - 1) \div 2,
                      GetNcclDtypeAndCount(Index(out_array, 0)).dtype,
                      GetNcclDtypeAndCount(Index(out_array, 0)).count)]

all_to_all(self, in_array, out_array) ==
    \* both checks of lines 188 and 192 read out_array.shape[0]
    IF out_array.shape[1] # self.n THEN Raises("ShapeError", <<>>)
    ELSE IF out_array.shape[1] # self.n THEN Raises("ShapeError", <<>>)
    ELSE IF CheckContiguousRaises(in_array) THEN Raises("LayoutError", <<>>)
    ELSE IF CheckContiguousRaises(out_array) THEN Raises("LayoutError", <<>>)
    ELSE IF ~GetNcclDtypeAndCount(Index(in_array, 0)).ok
         THEN Raises("UnsupportedType", <<>>)
    ELSE IF ~GetNcclDtypeAndCount(Index(out_array, 0)).ok
         THEN Raises("UnsupportedType", <<>>)
    \* in_array[i] raises IndexError at the first i >= in_array.shape[0],
    \* after the sends and receives of the slices before it
    ELSE IF in_array.shape[1] < self.n
         THEN Raises("IndexError",
                     <<GroupStart>>
                     \o SubSeq(AllToAllCalls(self, in_array, out_array),
                               1, 2 * in_array.shape[1]))
    ELSE Returns(<<GroupStart>>
                 \o AllToAllCalls(self, in_array, out_array)
                 \o <<GroupEnd>>)

(* ------------------------------------------------------------------ *)
(* NCCLBackend.__init__                                               *)
(* ------------------------------------------------------------------ *)

\* The first blocking line of __init__ after the proxy is created:
\* line 39 on rank 0, line 45 on every other rank.
FirstLine(r) == IF r = 0 THEN "l39" ELSE "l45"

\* The line that follows the barrier: rank 0 goes on to construct the
\* communicator, the others read 'nccl_id' first.
AfterBarrier(r) == IF r = 0 THEN "l48" ELSE "l46"

\* no host-side method is being called
NoValue == 0
NoHost == [at |-> "absent", entered |-> 0, left |-> 0, got |-> NoValue]
HostIdle ==
    /\ hmethod = "none"
    /\ hroot = 0
    /\ host = [r \in Ranks |-> NoHost]
    /\ barrier_gen = 0
    /\ checked = {}
    /\ published = {}

InitBoot ==
    /\ n_devices \in 1 .. MaxN
    /\ pc = [r \in Ranks |-> IF r < n_devices THEN FirstLine(r) ELSE "absent"]
    /\ store_run = FALSE
    /\ storage = NoId
    /\ arrived = {}
    /\ nccl_id = [r \in Ranks |-> NoId]
    /\ comm = [r \in Ranks |-> NoComm]
    /\ early = {}
    /\ self_rank = 0
    /\ phase = "init"
    /\ last = NoCall
    /\ result = Returns(<<>>)
    /\ scenario = NoScenario
    /\ ncalls = [r \in Ranks |-> 0]
    /\ xerr = [r \in Ranks |-> "None"]
    /\ xlog = [r \in Ranks |-> <<>>]
    /\ queue = [r \in Ranks |-> <<>>]
    /\ mem = [r \in Ranks |-> NoMem]
    /\ HostIdle

\* lines 39-40: rank 0 creates the store and starts its listener
RootRunStore ==
    /\ pc[0] = "l39"
    /\ store_run' = TRUE
    /\ pc' = [pc EXCEPT ![0] = "l41"]
    /\ UNCHANGED <<n_devices, storage, arrived, nccl_id, comm, early, opsVars, xVars, hostVars>>

\* line 41: nccl_id = nccl.get_unique_id()
RootGetUniqueId ==
    /\ pc[0] = "l41"
    /\ \E id \in Ids : nccl_id' = [nccl_id EXCEPT ![0] = id]
    /\ pc' = [pc EXCEPT ![0] = "l42"]
    /\ UNCHANGED <<n_devices, store_run, storage, arrived, comm, early, opsVars, xVars, hostVars>>

\* line 42: self._store_proxy['nccl_id'] = nccl_id
RootSet ==
    /\ pc[0] = "l42"
    /\ store_run
    /\ storage' = nccl_id[0]
    /\ pc' = [pc EXCEPT ![0] = "l43"]
    /\ UNCHANGED <<n_devices, store_run, arrived, nccl_id, comm, early, opsVars, xVars, hostVars>>

\* A rank leaves the barrier call out and goes straight on (only ranks
\* other than 0).
BarrierCallNonRootSkips(r) ==
    /\ r \in Procs
    /\ pc[r] = IF r = 0 THEN "l43" ELSE "l45"
    /\ pc' = [pc EXCEPT ![r] = IF r = 0 THEN "l43s" ELSE AfterBarrier(r)]
    /\ UNCHANGED <<n_devices, store_run, storage, arrived, nccl_id, comm, early, opsVars, xVars, hostVars>>

\* Rank 0 leaves the barrier call out; the other ranks call it.
BarrierCallRootSkips(r) ==
    /\ r \in Procs
    /\ pc[r] = IF r = 0 THEN "l43" ELSE "l45"
    /\ pc' = [pc EXCEPT ![r] = IF r = 0 THEN AfterBarrier(r) ELSE "l45s"]
    /\ UNCHANGED <<n_devices, store_run, storage, arrived, nccl_id, comm, early, opsVars, xVars, hostVars>>

\* lines 43 and 45: self._store_proxy.barrier() is called; the request is
\* on its way to the store (possibly before the listener exists).
BarrierCall(r) ==
    /\ r \in Procs
    /\ pc[r] = IF r = 0 THEN "l43" ELSE "l45"
    /\ pc' = [pc EXCEPT ![r] = IF r = 0 THEN "l43s" ELSE "l45s"]
    /\ early' = IF store_run THEN early ELSE early \cup {r}
    /\ UNCHANGED <<n_devices, store_run, storage, arrived, nccl_id, comm, opsVars, xVars, hostVars>>

\* The store, once it runs, registers the rank in the barrier.
StoreServeBarrier(r) ==
    /\ r \in Procs
    /\ pc[r] \in {"l43s", "l45s"}
    /\ store_run
    /\ arrived' = arrived \cup {r}
    /\ pc' = [pc EXCEPT ![r] = IF r = 0 THEN "l43w" ELSE "l45w"]
    /\ UNCHANGED <<n_devices, store_run, storage, nccl_id, comm, early, opsVars, xVars, hostVars>>

\* The barrier returns once all n_devices participants have checked in.
BarrierReturn(r) ==
    /\ r \in Procs
    /\ pc[r] \in {"l43w", "l45w"}
    /\ Cardinality(arrived) = n_devices
    /\ pc' = [pc EXCEPT ![r] = AfterBarrier(r)]
    /\ UNCHANGED <<n_devices, store_run, storage, arrived, nccl_id, comm, early, opsVars, xVars, hostVars>>

\* The rank makes up an id of its own instead of reading the store.
NonRootGetOwnId(r) ==
    /\ r \in Procs
    /\ pc[r] = "l46"
    /\ \E id \in Ids : nccl_id' = [nccl_id EXCEPT ![r] = id]
    /\ pc' = [pc EXCEPT ![r] = "l48"]
    /\ UNCHANGED <<n_devices, store_run, storage, arrived, comm, early, opsVars, xVars, hostVars>>

\* line 46: nccl_id = self._store_proxy['nccl_id'] (get blocks until the
\* key is present)
NonRootGet(r) ==
    /\ r \in Procs
    /\ pc[r] = "l46"
    /\ store_run
    /\ storage # NoId
    /\ nccl_id' = [nccl_id EXCEPT ![r] = storage]
    /\ pc' = [pc EXCEPT ![r] = "l48"]
    /\ UNCHANGED <<n_devices, store_run, storage, arrived, comm, early, opsVars, xVars, hostVars>>

\* line 48: self._comm = nccl.NcclCommunicator(n_devices, nccl_id, rank)
Construct(r) ==
    /\ r \in Procs
    /\ pc[r] = "l48"
    /\ comm' = [comm EXCEPT ![r] =
                   [built |-> TRUE, ndev |-> n_devices, id |-> nccl_id[r], rank |-> r]]
    /\ pc' = [pc EXCEPT ![r] = "done"]
    /\ UNCHANGED <<n_devices, store_run, storage, arrived, nccl_id, early, opsVars, xVars, hostVars>>

\* Rank 0's process fails before it has published the id.
RootFail ==
    /\ pc[0] \in {"l39", "l41", "l42"}
    /\ pc' = [pc EXCEPT ![0] = "failed"]
    /\ UNCHANGED <<n_devices, store_run, storage, arrived, nccl_id, comm, early, opsVars, xVars, hostVars>>

NextBoot ==
    \/ RootRunStore
    \/ RootGetUniqueId
    \/ RootSet
    \/ RootFail
    \/ \E r \in Ranks : BarrierCall(r)
    \/ \E r \in Ranks : StoreServeBarrier(r)
    \/ \E r \in Ranks : BarrierReturn(r)
    \/ \E r \in Ranks : NonRootGet(r)
    \/ \E r \in Ranks : Construct(r)

SpecBoot == InitBoot /\ [][NextBoot]_vars

\* Every process runs on its own and the store serves every request; only
\* the failure of rank 0 is not forced to happen.
FairBoot ==
    /\ WF_vars(RootRunStore)
    /\ WF_vars(RootGetUniqueId)
    /\ WF_vars(RootSet)
    /\ \A r \in Ranks :
        /\ WF_vars(BarrierCall(r))
        /\ WF_vars(StoreServeBarrier(r))
        /\ WF_vars(BarrierReturn(r))
        /\ WF_vars(NonRootGet(r))
        /\ WF_vars(Construct(r))

LiveBoot == SpecBoot /\ FairBoot

AllConstructed == \A r \in Procs : pc[r] = "done"
RootFailed == pc[0] = "failed"

(* ------------------------------------------------------------------ *)
(* Method calls on one constructed backend                            *)
(* ------------------------------------------------------------------ *)

\* device pointers of the two buffers a caller passes
InPtr == 1000
OutPtr == 2000

\* the shapes, layouts, dtypes and op names callers pass; "?" (bool) is a
\* dtype char outside _nccl_dtypes, "avg" an op name outside _nccl_ops
CallShapes ==
    {<<n_devices>>, <<n_devices, 2>>, <<n_devices, 2, 2>>,
     <<n_devices + 1, 2>>, <<1, 2, 2>>}
CallLayouts == {"C", "F", "N"}
CallDtypes == {"f", "F", "?"}
CallOps == {"sum", "min", "avg"}

\* every array of those; an array of one element is contiguous
CallArrays(ptr) ==
    {a \in [shape : CallShapes, layout : CallLayouts, dtype : CallDtypes,
            ptr : {ptr}] : Size(a) = 1 => a.layout # "N"}

Self == [n |-> n_devices, rank |-> self_rank]

InitOps ==
    /\ n_devices \in 1 .. MaxN
    /\ self_rank \in Procs
    /\ pc = [r \in Ranks |-> IF r < n_devices THEN "done" ELSE "absent"]
    /\ store_run = TRUE
    /\ storage = 1
    /\ arrived = Procs
    /\ early = {}
    /\ nccl_id = [r \in Ranks |-> IF r < n_devices THEN 1 ELSE NoId]
    /\ comm = [r \in Ranks |->
                  IF r < n_devices
                  THEN [built |-> TRUE, ndev |-> n_devices, id |-> 1,
                        rank |-> r]
                  ELSE NoComm]
    /\ phase = "idle"
    /\ last = NoCall
    /\ result = Returns(<<>>)
    /\ scenario = NoScenario
    /\ ncalls = [r \in Ranks |-> 0]
    /\ xerr = [r \in Ranks |-> "None"]
    /\ xlog = [r \in Ranks |-> <<>>]
    /\ queue = [r \in Ranks |-> <<>>]
    /\ mem = [r \in Ranks |-> NoMem]
    /\ HostIdle

\* the caller calls a method: the method runs to its return or its raise
Called(method, in_array, out_array, root, op, peer, res) ==
    /\ phase' = "returned"
    /\ last' = [method |-> method, in_array |-> in_array,
                out_array |-> out_array, root |-> root, op |-> op,
                peer |-> peer]
    /\ result' = res
    /\ UNCHANGED <<bootVars, self_rank, xVars, hostVars>>

CallAllReduce ==
    /\ phase = "idle"
    /\ \E i \in CallArrays(InPtr), o \in CallArrays(OutPtr), op \in CallOps :
        Called("all_reduce", i, o, NoArg, op, NoArg,
               all_reduce(Self, i, o, op))

CallReduce ==
    /\ phase = "idle"
    /\ \E i \in CallArrays(InPtr), o \in CallArrays(OutPtr), op \in CallOps,
       root \in Procs :
        Called("reduce", i, o, root, op, NoArg,
               reduce(Self, i, o, root, op))

CallBroadcast ==
    /\ phase = "idle"
    /\ \E i \in CallArrays(InPtr), root \in Procs :
        Called("broadcast", i, NoArray, root, "none", NoArg,
               broadcast(Self, i, root))

CallReduceScatter ==
    /\ phase = "idle"
    /\ \E i \in CallArrays(InPtr), o \in CallArrays(OutPtr), op \in CallOps :
        Called("reduce_scatter", i, o, NoArg, op, NoArg,
               reduce_scatter(Self, i, o, op))

CallAllGather ==
    /\ phase = "idle"
    /\ \E i \in CallArrays(InPtr), o \in CallArrays(OutPtr) :
        Called("all_gather", i, o, NoArg, "none", NoArg,
               all_gather(Self, i, o))

CallSend ==
    /\ phase = "idle"
    /\ \E i \in CallArrays(InPtr), peer \in Procs :
        Called("send", i, NoArray, NoArg, "none", peer,
               send(Self, i, peer))

CallRecv ==
    /\ phase = "idle"
    /\ \E o \in CallArrays(OutPtr), peer \in Procs :
        Called("recv", NoArray, o, NoArg, "none", peer,
               recv(Self, o, peer))

CallSendRecv ==
    /\ phase = "idle"
    /\ \E i \in CallArrays(InPtr), o \in CallArrays(OutPtr), peer \in Procs :
        Called("send_recv", i, o, NoArg, "none", peer,
               send_recv(Self, i, o, peer))

CallScatter ==
    /\ phase = "idle"
    /\ \E i \in CallArrays(InPtr), o \in CallArrays(OutPtr), root \in Procs :
        Called("scatter", i, o, root, "none", NoArg,
               scatter(Self, i, o, root))

CallGather ==
    /\ phase = "idle"
    /\ \E i \in CallArrays(InPtr), o \in CallArrays(OutPtr), root \in Procs :
        Called("gather", i, o, root, "none", NoArg,
               gather(Self, i, o, root))

CallAllToAll ==
    /\ phase = "idle"
    /\ \E i \in CallArrays(InPtr), o \in CallArrays(OutPtr) :
        Called("all_to_all", i, o, NoArg, "none", NoArg,
               all_to_all(Self, i, o))

\* the caller has seen the outcome and is ready for its next call
\* the element types a descriptor is asked for: every key of _nccl_dtypes,
\* and two characters outside it ('?' bool, 'g' long double)
DescrDtypes ==
    {"b", "B", "i", "I", "l", "L", "q", "Q", "e", "f", "d", "F", "D", "?",
     "g"}

\* _get_nccl_dtype_and_count(array) called on its own: it returns the
\* pair (nccl_dtype, count) or raises TypeError
CallGetNcclDtypeAndCount ==
    /\ phase = "idle"
    /\ \E array \in [shape : CallShapes, layout : CallLayouts,
                      dtype : DescrDtypes, ptr : {InPtr}] :
          Called("_get_nccl_dtype_and_count", array, NoArray, NoArg, "none",
                 NoArg,
                 IF GetNcclDtypeAndCount(array).ok
                 THEN [err |-> "None", calls |-> <<>>,
                       value |-> <<GetNcclDtypeAndCount(array).dtype,
                                   GetNcclDtypeAndCount(array).count>>]
                 ELSE Raises("UnsupportedType", <<>>))

CallerContinues ==
    /\ phase = "returned"
    /\ phase' = "idle"
    /\ last' = NoCall
    /\ result' = Returns(<<>>)
    /\ UNCHANGED <<bootVars, self_rank, xVars, hostVars>>

NextOps ==
    \/ CallAllReduce
    \/ CallReduce
    \/ CallBroadcast
    \/ CallReduceScatter
    \/ CallAllGather
    \/ CallSend
    \/ CallRecv
    \/ CallSendRecv
    \/ CallScatter
    \/ CallGather
    \/ CallAllToAll
    \/ CallGetNcclDtypeAndCount
    \/ CallerContinues

SpecOps == InitOps /\ [][NextOps]_vars

(* ------------------------------------------------------------------ *)
(* The ranks of a group run one collective together                   *)
(* ------------------------------------------------------------------ *)

\* device pointer of the third buffer (the result of a gather)
ResPtr == 3000

\* the dtypes and the shapes of one item (the buffer of send_recv, one
\* slice of scatter, gather and all_to_all) the group passes
XDtypes == {"i", "f", "d"}
XItems == {<<1>>, <<2>>, <<2, 2>>}

\* ncclTypeSize: bytes of one element of a wire type; 0 for a value that
\* is no wire type
WireSize(t) ==
    CASE t \in {0, 1} -> 1
      [] t = 6 -> 2
      [] t \in {2, 3, 7} -> 4
      [] t \in {4, 5, 8} -> 8
      [] OTHER -> 0

XArray(shape, ptr) ==
    [shape |-> shape, layout |-> "C", dtype |-> scenario.dtype, ptr |-> ptr]

\* the buffer a device pointer lies in, and the element it points at
BufOf(ptr) ==
    IF ptr >= ResPtr THEN "res" ELSE IF ptr >= OutPtr THEN "out" ELSE "in"
OffsetOf(ptr) ==
    IF ptr >= ResPtr THEN ptr - ResPtr
    ELSE IF ptr >= OutPtr THEN ptr - OutPtr ELSE ptr - InPtr

\* how many calls each rank makes in the scenario
CallsOf(kind) == IF kind = "scatter_gather" THEN 2 ELSE 1

\* the ranks that take part: send_recv is between p and q only
Participants ==
    IF scenario.kind = "send_recv" THEN {scenario.p, scenario.q} ELSE Procs

\* the element values rank r starts with in its buffer in: all distinct
Fill(r, len) == [e \in 1 .. len |-> (r + 1) * 100 + e]
Zeros(len) == [e \in 1 .. len |-> 0]

InitX ==
    /\ n_devices \in 1 .. MaxN
    /\ \E kind \in {"send_recv", "scatter_gather", "all_to_all"},
          root \in Procs, p \in Procs, q \in Procs,
          dtype \in XDtypes, item \in XItems :
        /\ kind = "send_recv" => (p # q /\ root = 0)
        /\ kind = "scatter_gather" => (p = 0 /\ q = 0)
        /\ kind = "all_to_all" => (p = 0 /\ q = 0 /\ root = 0)
        /\ scenario = [kind |-> kind, root |-> root, p |-> p, q |-> q,
                       dtype |-> dtype, item |-> item]
        /\ mem = [r \in Ranks |->
                    IF r >= n_devices THEN NoMem
                    ELSE IF kind = "send_recv"
                    THEN [in |-> Fill(r, Prod(item)),
                          out |-> Zeros(Prod(item)), res |-> <<>>]
                    ELSE IF kind = "scatter_gather"
                    THEN [in |-> Fill(r, n_devices * Prod(item)),
                          out |-> Zeros(Prod(item)),
                          res |-> Zeros(n_devices * Prod(item))]
                    ELSE [in |-> Fill(r, n_devices * Prod(item)),
                          out |-> Zeros(n_devices * Prod(item)),
                          res |-> <<>>]]
    /\ ncalls = [r \in Ranks |-> 0]
    /\ xerr = [r \in Ranks |-> "None"]
    /\ xlog = [r \in Ranks |-> <<>>]
    /\ queue = [r \in Ranks |-> <<>>]
    /\ pc = [r \in Ranks |-> IF r < n_devices THEN "done" ELSE "absent"]
    /\ store_run = TRUE
    /\ storage = 1
    /\ arrived = Procs
    /\ early = {}
    /\ nccl_id = [r \in Ranks |-> IF r < n_devices THEN 1 ELSE NoId]
    /\ comm = [r \in Ranks |->
                  IF r < n_devices
                  THEN [built |-> TRUE, ndev |-> n_devices, id |-> 1,
                        rank |-> r]
                  ELSE NoComm]
    /\ self_rank = 0
    /\ phase = "group"
    /\ last = NoCall
    /\ result = Returns(<<>>)
    /\ HostIdle

\* the outcome of the next call rank r makes in the scenario
XOutcome(r) ==
    LET self == [n |-> n_devices, rank |-> r]
        item == scenario.item
        whole == <<n_devices>> \o scenario.item
    IN  CASE scenario.kind = "send_recv" ->
                send_recv(self, XArray(item, InPtr), XArray(item, OutPtr),
                          IF r = scenario.p THEN scenario.q ELSE scenario.p)
          [] scenario.kind = "all_to_all" ->
                all_to_all(self, XArray(whole, InPtr), XArray(whole, OutPtr))
          [] scenario.kind = "scatter_gather" /\ ncalls[r] = 0 ->
                scatter(self, XArray(whole, InPtr), XArray(item, OutPtr),
                        scenario.root)
          [] OTHER ->
                gather(self, XArray(item, OutPtr), XArray(whole, ResPtr),
                       scenario.root)

\* the sends and receives of a call, which ncclGroupEnd hands to the stream
PointToPoint(calls) == SelectSeq(calls, LAMBDA c : c.fn \in {"send", "recv"})

\* Rank r makes its next call. The call enqueues its group on the stream and
\* returns; a call that raises ends the program of the rank.
XCall(r) ==
    /\ r \in Participants
    /\ xerr[r] = "None"
    /\ ncalls[r] < CallsOf(scenario.kind)
    /\ ncalls' = [ncalls EXCEPT ![r] = @ + 1]
    /\ xlog' = [xlog EXCEPT ![r] = Append(@, XOutcome(r).calls)]
    /\ xerr' = [xerr EXCEPT ![r] = XOutcome(r).err]
    /\ queue' = [queue EXCEPT ![r] =
                    IF XOutcome(r).err = "None"
                    THEN Append(@, PointToPoint(XOutcome(r).calls))
                    ELSE @]
    /\ UNCHANGED <<bootVars, opsVars, hostVars, scenario, mem>>

\* the position in the oldest group of rank r of its first send to /
\* receive from the peer; 0 when there is none
FirstOp(r, fn, peer) ==
    IF queue[r] = <<>> THEN 0
    ELSE LET g == queue[r][1]
             hits == {k \in 1 .. Len(g) : g[k].fn = fn /\ g[k].peer = peer}
         IN  IF hits = {} THEN 0
             ELSE CHOOSE k \in hits : \A j \in hits : k <= j

\* a send of rank a to rank b and a receive of rank b from rank a are
\* both in the oldest groups of their streams
Paired(a, b) ==
    /\ a \in Procs /\ b \in Procs
    /\ xerr[a] \notin {"TransportFailure"}
    /\ xerr[b] \notin {"TransportFailure"}
    /\ FirstOp(a, "send", b) # 0
    /\ FirstOp(b, "recv", a) # 0

\* The transport can carry out the pair: both name a wire type, ask for
\* the same number of bytes, and stay inside the two buffers.
Compatible(a, b) ==
    LET s == queue[a][1][FirstOp(a, "send", b)]
        v == queue[b][1][FirstOp(b, "recv", a)]
    IN  /\ WireSize(s.dtype) # 0
        /\ WireSize(v.dtype) # 0
        /\ s.count * WireSize(s.dtype) = v.count * WireSize(v.dtype)
        /\ OffsetOf(s.sendbuf) + v.count <= Len(mem[a][BufOf(s.sendbuf)])
        /\ OffsetOf(v.recvbuf) + v.count <= Len(mem[b][BufOf(v.recvbuf)])

\* sequence g without its k-th element
Without(g, k) == SubSeq(g, 1, k - 1) \o SubSeq(g, k + 1, Len(g))

\* the stream of a rank after the k-th operation of its oldest group is
\* done; a group with nothing left to do leaves the stream
AfterDone(q, k) ==
    IF Len(q[1]) = 1 THEN Tail(q) ELSE <<Without(q[1], k)>> \o Tail(q)

\* The transport carries out a matching send and receive: the elements
\* move from the send buffer of a to the receive buffer of b.
Deliver(a, b) ==
    /\ Paired(a, b)
    /\ Compatible(a, b)
    /\ LET ks == FirstOp(a, "send", b)
           kv == FirstOp(b, "recv", a)
           s == queue[a][1][ks]
           v == queue[b][1][kv]
           src == mem[a][BufOf(s.sendbuf)]
           so == OffsetOf(s.sendbuf)
           do == OffsetOf(v.recvbuf)
       IN  /\ mem' = [mem EXCEPT ![b][BufOf(v.recvbuf)] =
                        [e \in DOMAIN @ |->
                            IF e > do /\ e <= do + v.count
                            THEN src[so + (e - do)] ELSE @[e]]]
           /\ queue' =
                IF a = b
                THEN [queue EXCEPT ![a] =
                        AfterDone(<<Without(queue[a][1], ks)>>
                                      \o Tail(queue[a]),
                                  IF kv > ks THEN kv - 1 ELSE kv)]
                ELSE [queue EXCEPT ![a] = AfterDone(@, ks),
                                   ![b] = AfterDone(@, kv)]
    /\ UNCHANGED <<bootVars, opsVars, hostVars, scenario, ncalls, xerr, xlog>>

\* A send and the receive it meets do not fit: the transport reports a
\* failure on both ranks, which is fatal for their communicators.
Mismatch(a, b) ==
    /\ Paired(a, b)
    /\ ~Compatible(a, b)
    /\ xerr' = [r \in Ranks |->
                   IF r \in {a, b} THEN "TransportFailure" ELSE xerr[r]]
    /\ UNCHANGED <<bootVars, opsVars, hostVars, scenario, ncalls, xlog, queue, mem>>

NextX ==
    \/ \E r \in Ranks : XCall(r)
    \/ \E a \in Ranks, b \in Ranks : Deliver(a, b)
    \/ \E a \in Ranks, b \in Ranks : Mismatch(a, b)

SpecX == InitX /\ [][NextX]_vars

\* every rank has made its calls and the transport has nothing left it
\* can do
XSettled ==
    /\ \A r \in Participants :
          ncalls[r] = CallsOf(scenario.kind) \/ xerr[r] # "None"
    /\ \A a \in Procs, b \in Procs : ~Paired(a, b)

\* every call returned, every group left its stream, nothing failed
XCompleted ==
    \A r \in Participants :
        /\ ncalls[r] = CallsOf(scenario.kind)
        /\ xerr[r] = "None"
        /\ queue[r] = <<>>

(* ------------------------------------------------------------------ *)
(* Bootstrap claims                                                   *)
(* ------------------------------------------------------------------ *)

\* C1: every rank that has built its communicator built it with
\* (n_devices, id, rank) where id is the one value rank 0 generated and
\* stored under 'nccl_id'; no two ranks construct with different ids.
C1_BootstrapAgreement ==
    /\ \A r \in Procs :
          comm[r].built =>
             /\ comm[r].id # NoId
             /\ comm[r].id = nccl_id[0]
             /\ comm[r].id = storage
             /\ comm[r].ndev = n_devices
             /\ comm[r].rank = r
    /\ \A r1, r2 \in Procs :
          (comm[r1].built /\ comm[r2].built) => comm[r1].id = comm[r2].id

C1_Witness ==
    /\ n_devices = MaxN
    /\ AllConstructed
    /\ \A r \in Procs : comm[r].built

\* C2: a rank other than 0 is past its barrier, has read 'nccl_id' or has
\* built its communicator only when rank 0 has executed the set of
\* 'nccl_id'; what it read is the published value, never an absent one.
C2_PublishBeforeRead ==
    \A r \in Procs \ {0} :
        /\ pc[r] \in {"l46", "l48", "done"} =>
              /\ storage # NoId
              /\ pc[0] \in {"l43", "l43s", "l43w", "l48", "done"}
        /\ pc[r] \in {"l48", "done"} =>
              (nccl_id[r] # NoId /\ nccl_id[r] = storage)
        /\ comm[r].built => (storage # NoId /\ comm[r].id = storage)
        /\ storage = NoId => ~comm[r].built

C2_Witness ==
    /\ n_devices >= 2
    /\ pc[1] = "l46"
    /\ pc[0] = "l43w"
    /\ storage # NoId

Returned == phase = "returned"

\* contiguous in neither of the two canonical orders
NonContiguous(a) == ~CContiguous(a) /\ ~FContiguous(a)

\* the buffer arguments of the method called last
TakesIn == last.method \notin {"recv", "_get_nccl_dtype_and_count"}
TakesOut ==
    last.method \notin {"broadcast", "send", "_get_nccl_dtype_and_count"}
Buffers ==
    (IF TakesIn THEN {last.in_array} ELSE {})
    \cup (IF TakesOut THEN {last.out_array} ELSE {})

\* the leading-dimension check that opens scatter, gather and all_to_all
\* fails
LeadingDimRejected ==
    \/ last.method = "scatter" /\ last.in_array.shape[1] # n_devices
    \/ last.method \in {"gather", "all_to_all"}
          /\ last.out_array.shape[1] # n_devices

\* C4: the layout check raises exactly when the buffer is contiguous in
\* neither order; a buffer that is C-contiguous, F-contiguous or both is
\* accepted. Stated on the operations whose first statement is the check
\* of their one buffer.
C4_LayoutAcceptance ==
    /\ (Returned /\ last.method \in {"send", "broadcast"}) =>
          ((result.err = "LayoutError") <=> NonContiguous(last.in_array))
    /\ (Returned /\ last.method = "recv") =>
          ((result.err = "LayoutError") <=> NonContiguous(last.out_array))

CheckedBuffers ==
    IF last.method = "reduce" /\ self_rank # last.root
    THEN {last.in_array}
    ELSE Buffers

C6_UnsupportedTypeBeforeTransport ==
    (Returned /\ result.err = "UnsupportedType") => result.calls = <<>>

\* the one transport call a single-call collective is to issue
SingleCall ==
    TCall(CASE last.method = "all_reduce" -> "allReduce"
            [] last.method = "reduce" -> "reduce"
            [] last.method = "broadcast" -> "broadcast"
            [] last.method = "reduce_scatter" -> "reduceScatter"
            [] last.method = "all_gather" -> "allGather"
            [] OTHER -> "none",
          last.in_array.ptr,
          IF last.method = "broadcast" THEN last.in_array.ptr
          ELSE last.out_array.ptr,
          GetNcclDtypeAndCount(last.in_array).count,
          GetNcclDtypeAndCount(last.in_array).dtype,
          IF last.op \in DOMAIN NcclOps THEN NcclOps[last.op] ELSE NoArg,
          last.root)

\* every check the single-call collective makes passes
SingleCallValidationPasses ==
    /\ \A b \in CheckedBuffers : ~CheckContiguousRaises(b)
    /\ GetNcclDtypeAndCount(last.in_array).ok
    /\ last.method \in {"all_reduce", "reduce", "reduce_scatter"} =>
          last.op \in DOMAIN NcclOps

\* C7: when validation passes, each of all_reduce, reduce, broadcast,
\* reduce_scatter and all_gather returns having issued exactly one call,
\* of its own primitive, with the input pointer, the output pointer, the
\* translated count and wire type, and nothing else.
C7_SingleCallCollectives ==
    (/\ Returned
     /\ last.method \in {"all_reduce", "reduce", "broadcast",
                         "reduce_scatter", "all_gather"}
     /\ SingleCallValidationPasses) =>
        (result.err = "None" /\ result.calls = <<SingleCall>>)

(* ------------------------------------------------------------------ *)
(* Exchange claims (the ranks of a group run one collective)          *)
(* ------------------------------------------------------------------ *)

\* the names of the transport calls of a call, in order
Fns(calls) == [k \in DOMAIN calls |-> calls[k].fn]

\* elements first + 1 .. first + len of a buffer
Slice(buf, first, len) == SubSeq(buf, first + 1, first + len)

ItemLen == Prod(scenario.item)

\* the buffers of the scenario are ones _check_contiguous lets through
XAccepted ==
    /\ ~CheckContiguousRaises(XArray(scenario.item, InPtr))
    /\ ~CheckContiguousRaises(XArray(<<n_devices>> \o scenario.item, InPtr))

\* C8: when ranks p and q call send_recv with each other as peer and
\* buffers of equal size and type, both calls complete, each issues exactly
\* group-start, one send to the peer, one recv from the peer, group-end in
\* that order, and afterwards each out buffer holds the peer's in. Stated
\* for buffers the layout check lets through.
C8_SendRecvExchange ==
    (scenario.kind = "send_recv" /\ XAccepted /\ XSettled) =>
        /\ XCompleted
        /\ \A r \in Participants :
            LET peer == IF r = scenario.p THEN scenario.q ELSE scenario.p
            IN  /\ Len(xlog[r]) = 1
                /\ Fns(xlog[r][1]) =
                       <<"groupStart", "send", "recv", "groupEnd">>
                /\ xlog[r][1][2].peer = peer
                /\ xlog[r][1][3].peer = peer
                /\ mem[r].out = mem[peer].in

\* C9: when every rank calls scatter(in, out, root) and then
\* gather(out, res, root), both collectives complete on all ranks and res
\* at the root equals the root's in. Stated for buffers the layout check
\* lets through.
C9_ScatterGatherRoundTrip ==
    (scenario.kind = "scatter_gather" /\ XAccepted /\ XSettled) =>
        /\ XCompleted
        /\ mem[scenario.root].res = mem[scenario.root].in

\* C10: when every rank calls all_to_all with both leading dimensions equal
\* to the group size, every call completes, each rank issues N sends and N
\* recvs in one group (send of slice i to rank i, recv into slice i from
\* rank i), and afterwards out_r[i] = in_i[r]. Stated for buffers the
\* layout check lets through.
C10_AllToAllResult ==
    (scenario.kind = "all_to_all" /\ XAccepted /\ XSettled) =>
        /\ XCompleted
        /\ \A r \in Procs :
            /\ Len(xlog[r]) = 1
            /\ Len(xlog[r][1]) = 2 * n_devices + 2
            /\ xlog[r][1][1].fn = "groupStart"
            /\ xlog[r][1][2 * n_devices + 2].fn = "groupEnd"
            /\ \A i \in Procs :
                /\ xlog[r][1][2 * i + 2].fn = "send"
                /\ xlog[r][1][2 * i + 2].peer = i
                /\ xlog[r][1][2 * i + 2].sendbuf = InPtr + i * ItemLen
                /\ xlog[r][1][2 * i + 3].fn = "recv"
                /\ xlog[r][1][2 * i + 3].peer = i
                /\ xlog[r][1][2 * i + 3].recvbuf = OutPtr + i * ItemLen
                /\ Slice(mem[r].out, i * ItemLen, ItemLen) =
                       Slice(mem[i].in, r * ItemLen, ItemLen)

(* ------------------------------------------------------------------ *)
(* Shape preconditions                                                *)
(* ------------------------------------------------------------------ *)

\* C11: all_to_all fails with the shape error, before any transport call
\* or group marker, when the leading dimension of in or of out differs
\* from the group size.
C11_AllToAllShapePrecondition ==
    (/\ Returned
     /\ last.method = "all_to_all"
     /\ \/ last.in_array.shape[1] # n_devices
        \/ last.out_array.shape[1] # n_devices) =>
        (result.err = "ShapeError" /\ result.calls = <<>>)

\* C12 as stated, its last part: on a rank that is not the root, scatter is
\* not rejected because of the leading dimension of in, nor gather because
\* of the leading dimension of out (the buffers only the root uses).
C12_NonRootNotRejected ==
    (/\ Returned
     /\ last.method \in {"scatter", "gather"}
     /\ self_rank # last.root) =>
        result.err # "ShapeError"

\* C12, amended: scatter fails with the shape error whenever the leading
\* dimension of in differs from the group size, gather whenever that of out
\* does, before any transport call or group marker, and on every rank, the
\* root or not; a call whose leading dimension fits is never rejected with
\* the shape error.
C12_ScatterGatherShapePrecondition ==
    (Returned /\ last.method \in {"scatter", "gather"}) =>
        /\ LeadingDimRejected =>
              (result.err = "ShapeError" /\ result.calls = <<>>)
        /\ ~LeadingDimRejected => result.err # "ShapeError"

\* a rank that is not the root called scatter with an in whose leading
\* dimension is not the group size, and got the shape error
C12_Witness ==
    /\ Returned
    /\ last.method = "scatter"
    /\ self_rank # last.root
    /\ last.in_array.shape[1] # n_devices
    /\ ~CheckContiguousRaises(last.in_array)
    /\ ~CheckContiguousRaises(last.out_array)
    /\ result.err = "ShapeError"
    /\ result.calls = <<>>

(* ------------------------------------------------------------------ *)
(* Type and count translation                                         *)
(* ------------------------------------------------------------------ *)

DescriptorReturned == Returned /\ last.method = "_get_nccl_dtype_and_count"

\* C13: for a buffer of k elements _get_nccl_dtype_and_count returns
\* count 2k with float32 for single-precision complex and with float64
\* for double-precision complex, count exactly k with the table's wire
\* type for every other mapped type, and raises for every unmapped type.
C13_TypeCountTranslation ==
    DescriptorReturned =>
        LET t == last.in_array.dtype
            k == Size(last.in_array)
        IN  /\ t = "F" =>
                  /\ result.err = "None"
                  /\ result.value = <<NcclDtypes["f"], 2 * k>>
            /\ t = "D" =>
                  /\ result.err = "None"
                  /\ result.value = <<NcclDtypes["d"], 2 * k>>
            /\ t \in (DOMAIN NcclDtypes) \ {"F", "D"} =>
                  /\ result.err = "None"
                  /\ result.value = <<NcclDtypes[t], k>>
            /\ t \notin DOMAIN NcclDtypes => result.err = "UnsupportedType"

\* a double-precision complex buffer of more than one element has been
\* translated
C13_Witness ==
    /\ DescriptorReturned
    /\ last.in_array.dtype = "D"
    /\ Size(last.in_array) > 1
    /\ result.err = "None"
    /\ result.value[2] = 2 * Size(last.in_array)

(* ------------------------------------------------------------------ *)
(* Group brackets and the arguments of send and recv                  *)
(* ------------------------------------------------------------------ *)

\* how many of the calls issued are the call c
Issued(c) ==
    Cardinality({i \in DOMAIN result.calls : result.calls[i] = c})

\* C16: after any public operation returns or raises, the number of
\* group-start markers issued equals the number of group-end markers: no
\* error path between ncclGroupStart and ncclGroupEnd leaves a group open.
C16_GroupBracketsClose ==
    Returned => Issued(GroupStart) = Issued(GroupEnd)

\* the array whose translated (dtype, count) the method hands to _send,
\* and the one whose pair it hands to _recv
SendDescriptor ==
    GetNcclDtypeAndCount(
        CASE last.method = "scatter" -> last.out_array
          [] last.method = "all_to_all" -> Index(last.in_array, 0)
          [] OTHER -> last.in_array)
RecvDescriptor ==
    GetNcclDtypeAndCount(
        CASE last.method = "all_to_all" -> Index(last.out_array, 0)
          [] OTHER -> last.out_array)

PointToPointMethods ==
    {"send", "recv", "send_recv", "scatter", "gather", "all_to_all"}

\* C17: every transport send issued by send, send_recv, scatter, gather
\* and all_to_all, like every transport recv, carries the translated
\* element count in the count position and the wire type in the type
\* position.
C17_PointToPointArgumentOrder ==
    (Returned /\ last.method \in PointToPointMethods
              /\ result.err = "None") =>
        \A i \in DOMAIN result.calls :
            /\ result.calls[i].fn = "send" =>
                  /\ result.calls[i].count = SendDescriptor.count
                  /\ result.calls[i].dtype = SendDescriptor.dtype
            /\ result.calls[i].fn = "recv" =>
                  /\ result.calls[i].count = RecvDescriptor.count
                  /\ result.calls[i].dtype = RecvDescriptor.dtype

\* the calls of the given primitive among those issued, in issue order
RECURSIVE Only(_, _)
Only(fn, calls) ==
    IF calls = <<>> THEN <<>>
    ELSE IF Head(calls).fn = fn THEN <<Head(calls)>> \o Only(fn, Tail(calls))
    ELSE Only(fn, Tail(calls))

\* C18: in gather the root issues exactly size receives, the i-th into
\* slice out[i] from rank i, each with the element count of one slice,
\* so that the counts of the receives add up to the size of out.
C18_GatherReceiveCounts ==
    (Returned /\ last.method = "gather" /\ result.err = "None"
              /\ self_rank = last.root) =>
        LET recvs == Only("recv", result.calls)
        IN  /\ Len(recvs) = n_devices
            /\ \A j \in 1 .. Len(recvs) :
                  /\ recvs[j].recvbuf = Index(last.out_array, j - 1).ptr
                  /\ recvs[j].peer = j - 1
                  /\ recvs[j].count =
                        GetNcclDtypeAndCount(Index(last.out_array, 0)).count
                  /\ n_devices * recvs[j].count =
                        GetNcclDtypeAndCount(last.out_array).count

\* C19: in one scatter call the root issues exactly size sends, the i-th
\* carrying slice in[i] to rank i with the element count of one slice,
\* every rank issues exactly one recv from the root into out, a non-root
\* rank issues no send, and all of these calls lie between a single
\* group-start and a single group-end.
C19_ScatterIssuePattern ==
    (Returned /\ last.method = "scatter" /\ result.err = "None") =>
        LET sends == Only("send", result.calls)
            recvs == Only("recv", result.calls)
        IN  /\ Len(sends) = IF self_rank = last.root THEN n_devices ELSE 0
            /\ \A j \in 1 .. Len(sends) :
                  /\ sends[j].sendbuf = Index(last.in_array, j - 1).ptr
                  /\ sends[j].peer = j - 1
                  /\ sends[j].count =
                        GetNcclDtypeAndCount(Index(last.in_array, 0)).count
            /\ Len(recvs) = 1
            /\ recvs[1].recvbuf = last.out_array.ptr
            /\ recvs[1].peer = last.root
            /\ result.calls =
                  <<GroupStart>> \o sends \o recvs \o <<GroupEnd>>

(* ------------------------------------------------------------------ *)
(* cpu_barrier and cpu_broadcast: every rank of a constructed group   *)
(* calls the same host-side method, up to MaxRounds times. The store  *)
(* is the rendezvous store of the specification: it keeps a counter   *)
(* under 'barrier' that it advances once all participants have        *)
(* checked in, and wait_until(key, generation) blocks until the value *)
(* under key has reached or passed generation.                        *)
(* ------------------------------------------------------------------ *)

MaxRounds == 2

\* the generation both methods wait for: wait_until('barrier', 0)
WaitGeneration == 0

\* the value rank r passes to cpu_broadcast
ValueOf(r) == r + 1

InitHost ==
    /\ n_devices \in 1 .. MaxN
    /\ pc = [r \in Ranks |-> IF r < n_devices THEN "done" ELSE "absent"]
    /\ store_run = TRUE
    /\ storage = 1
    /\ arrived = Procs
    /\ early = {}
    /\ nccl_id = [r \in Ranks |-> IF r < n_devices THEN 1 ELSE NoId]
    /\ comm = [r \in Ranks |->
                  IF r < n_devices
                  THEN [built |-> TRUE, ndev |-> n_devices, id |-> 1,
                        rank |-> r]
                  ELSE NoComm]
    /\ self_rank = 0
    /\ phase = "host"
    /\ last = NoCall
    /\ result = Returns(<<>>)
    /\ scenario = NoScenario
    /\ ncalls = [r \in Ranks |-> 0]
    /\ xerr = [r \in Ranks |-> "None"]
    /\ xlog = [r \in Ranks |-> <<>>]
    /\ queue = [r \in Ranks |-> <<>>]
    /\ mem = [r \in Ranks |-> NoMem]
    /\ hmethod \in {"cpu_barrier", "cpu_broadcast"}
    /\ hroot \in Procs
    /\ hmethod = "cpu_barrier" => hroot = 0
    /\ host = [r \in Ranks |->
                  IF r < n_devices
                  THEN [at |-> "out", entered |-> 0, left |-> 0,
                        got |-> NoValue]
                  ELSE NoHost]
    \* the bootstrap barrier may or may not have advanced the counter
    /\ barrier_gen \in 0 .. 1
    /\ checked = {}
    /\ published = {}

\* rank r calls the method: its only statement is the call of wait_until,
\* and the store sees the rank check in
WaitUntilCall(r, method) ==
    /\ hmethod = method
    /\ host[r].at = "out"
    /\ host[r].entered < MaxRounds
    /\ host' = [host EXCEPT ![r].at = method,
                            ![r].entered = host[r].entered + 1]
    /\ checked' = checked \cup {r}
    /\ UNCHANGED <<bootVars, opsVars, xVars, hmethod, hroot, barrier_gen,
                   published>>

\* wait_until returns to rank r once the counter has reached or passed the
\* generation asked for, and the method returns None
WaitUntilReturn(r, method) ==
    /\ host[r].at = method
    /\ barrier_gen >= WaitGeneration
    /\ host' = [host EXCEPT ![r].at = "out",
                            ![r].left = host[r].left + 1,
                            ![r].got = NoValue]
    /\ UNCHANGED <<bootVars, opsVars, xVars, hmethod, hroot, barrier_gen,
                   checked, published>>

\* line 211: self._store_proxy.wait_until('barrier', 0)
cpu_barrier_call(r) == WaitUntilCall(r, "cpu_barrier")
cpu_barrier_return(r) == WaitUntilReturn(r, "cpu_barrier")

\* line 216: self._store_proxy.wait_until('barrier', 0); value and root
\* are not used
cpu_broadcast_call(r) == WaitUntilCall(r, "cpu_broadcast")
cpu_broadcast_return(r) == WaitUntilReturn(r, "cpu_broadcast")

\* the store advances the counter once all participants have checked in
StoreAdvance ==
    /\ checked = Procs
    /\ barrier_gen' = barrier_gen + 1
    /\ checked' = {}
    /\ UNCHANGED <<bootVars, opsVars, xVars, hmethod, hroot, host,
                   published>>

NextHost ==
    \/ \E r \in Procs : cpu_barrier_call(r)
    \/ \E r \in Procs : cpu_barrier_return(r)
    \/ \E r \in Procs : cpu_broadcast_call(r)
    \/ \E r \in Procs : cpu_broadcast_return(r)
    \/ StoreAdvance

SpecHost == InitHost /\ [][NextHost]_vars

\* C14: cpu_barrier is a barrier: no rank returns from cpu_barrier before
\* all ranks have entered it, in the first round and in each later round.
C14_CpuBarrier ==
    hmethod = "cpu_barrier" =>
        \A r \in Procs, q \in Procs : host[r].left <= host[q].entered

\* C15: when all ranks call cpu_broadcast(value_r, root) with the same
\* root, the root's value is published through the store and every rank
\* that returns from the call has obtained the root's value.
C15_CpuBroadcastDelivers ==
    hmethod = "cpu_broadcast" =>
        \A r \in Procs :
            host[r].left > 0 =>
                /\ ValueOf(hroot) \in published
                /\ host[r].got = ValueOf(hroot)

(* ------------------------------------------------------------------ *)
(* Pairing of sends and receives: the ranks of a group run scatter    *)
(* then gather, or all_to_all, over a transport that completes a      *)
(* group once each of its sends and receives has its partner in the   *)
(* group the peer issued for the same call, whatever the counts and   *)
(* the types.                                                         *)
(* ------------------------------------------------------------------ *)

\* pairing looks at the primitive and the peer of a call only: one element
\* type, and an item of one and of two dimensions, cover it
InitPair ==
    /\ InitX
    /\ scenario.kind # "send_recv"
    /\ scenario.dtype = "f"
    /\ scenario.item \in {<<2>>, <<2, 2>>}

\* how many calls of the primitive fn with the given peer rank r issued in
\* its k-th call
IssuedTo(r, k, fn, peer) ==
    Cardinality({i \in DOMAIN xlog[r][k] :
                    xlog[r][k][i].fn = fn /\ xlog[r][k][i].peer = peer})

\* which of its calls the oldest group on the stream of rank r comes from
OldestCall(r) ==
    ncalls[r] - Len(queue[r]) + (IF xerr[r] = "None" THEN 1 ELSE 0)

\* every send and every receive of the k-th call of rank r has a partner
\* of its own in the k-th call of its peer
HasPartners(r, k) ==
    \A b \in Procs :
        /\ IssuedTo(r, k, "send", b) > 0 =>
              /\ Len(xlog[b]) >= k
              /\ IssuedTo(r, k, "send", b) <= IssuedTo(b, k, "recv", r)
        /\ IssuedTo(r, k, "recv", b) > 0 =>
              /\ Len(xlog[b]) >= k
              /\ IssuedTo(r, k, "recv", b) <= IssuedTo(b, k, "send", r)

\* the transport completes the oldest group on the stream of rank r
GroupCompletes(r) ==
    /\ r \in Procs
    /\ queue[r] # <<>>
    /\ HasPartners(r, OldestCall(r))
    /\ queue' = [queue EXCEPT ![r] = Tail(@)]
    /\ UNCHANGED <<bootVars, opsVars, hostVars, scenario, ncalls, xerr, xlog,
                   mem>>

NextPair ==
    \/ \E r \in Ranks : XCall(r)
    \/ \E r \in Ranks : GroupCompletes(r)

SpecPair == InitPair /\ [][NextPair]_vars

\* every rank goes on to its next call, and the transport goes on
\* completing the groups that can complete
LivePair ==
    /\ SpecPair
    /\ \A r \in Ranks : WF_vars(XCall(r)) /\ WF_vars(GroupCompletes(r))

\* once every rank has made its k-th call, the sends from a to b are as
\* many as the receives of b from a
PairsBalanced ==
    \A k \in 1 .. CallsOf(scenario.kind) :
        (\A r \in Procs : Len(xlog[r]) >= k) =>
            \A a \in Procs, b \in Procs :
                IssuedTo(a, k, "send", b) = IssuedTo(b, k, "recv", a)

\* every rank has left its last call and no send or receive is left on
\* any stream
PairsDrained ==
    \A r \in Procs :
        /\ ncalls[r] = CallsOf(scenario.kind) \/ xerr[r] # "None"
        /\ queue[r] = <<>>

\* C20: when all ranks of a group call the same composed collective with
\* the same root and consistent shapes, the sends from a to b issued over
\* all ranks are as many as the receives of b from a, and under a
\* transport that completes every send and receive that has its partner,
\* every rank eventually has left the call with no send or receive left
\* unmatched.
C20_SendRecvPairing == []PairsBalanced /\ <>[]PairsDrained

\* a group of at least two ranks has run scatter and gather, each rank
\* issued its sends and receives, and all of them are paired off
C20_Witness ==
    /\ scenario.kind = "scatter_gather"
    /\ n_devices >= 2
    /\ \A r \in Procs :
          /\ xerr[r] = "None"
          /\ Len(xlog[r]) = 2
          /\ IssuedTo(r, 1, "recv", scenario.root) = 1
          /\ IssuedTo(r, 2, "send", scenario.root) = 1
    /\ IssuedTo(scenario.root, 1, "send", scenario.root) = 1
    /\ PairsDrained

====
